---------------------------- MODULE Spec2Model ----------------------------
(***************************************************************************)
(* convert-case-extras: the Toggle, Alternating and Random patterns        *)
(* (src/src/lib.rs, mod pattern) and the three case presets built on them  *)
(* (mod case).                                                             *)
(*                                                                         *)
(* A character is a string token, a word is a sequence of characters, and  *)
(* the argument of a pattern is a sequence of words.  Two specifications:  *)
(*   Spec      one call of a pattern (mutate) or of a preset (to_case) on  *)
(*             an input drawn from a bounded set;                          *)
(*   ConcSpec  two invocations of ALTERNATING running character by         *)
(*             character, interleaved in every possible way.               *)
(***************************************************************************)
EXTENDS Integers, Sequences, FiniteSets

(***************************************************************************)
(* Bounds of the model.                                                    *)
(***************************************************************************)
MaxChars == 3       \* characters in a pattern's whole argument
MaxWords == 2       \* words in a pattern's argument
RandMaxChars == 2   \* characters in the argument of pattern::RANDOM
MaxStrLen == 4      \* characters in a string handed to to_case
ConcMaxChars == 2   \* characters in the argument of a concurrent invocation
ConcMaxWords == 2   \* words in the argument of a concurrent invocation

(***************************************************************************)
(* The characters.  Tokens standing for non-ASCII characters:              *)
(*   "sz"  U+00DF  sharp s: lowercase, its uppercase is the two            *)
(*                 characters "SS"                                         *)
(*   "kra" U+0138  kra: lowercase (Ll) with no uppercase mapping           *)
(*   "Dz"  U+01C5  titlecase digraph: neither is_uppercase nor             *)
(*                 is_lowercase, uppercase "DZ" U+01C4, lowercase "dz"     *)
(*                 U+01C6                                                  *)
(***************************************************************************)
InputChars == {"a", "B", "1", "sz", "kra", "Dz"}
StrChars == {"a", "B", " ", "_", "-"}
ConcChars == {"a", "1"}

\* char::is_uppercase
is_uppercase(c) == c \in {"A", "B", "S", "DZ"}

\* char::is_lowercase
is_lowercase(c) == c \in {"a", "b", "s", "sz", "kra", "dz"}

\* char::to_uppercase: the characters of the uppercase mapping
to_uppercase(c) ==
    CASE c = "a" -> <<"A">>
      [] c = "b" -> <<"B">>
      [] c = "s" -> <<"S">>
      [] c = "sz" -> <<"S", "S">>
      [] c \in {"Dz", "dz"} -> <<"DZ">>
      [] OTHER -> <<c>>

\* char::to_lowercase: the characters of the lowercase mapping
to_lowercase(c) ==
    CASE c = "A" -> <<"a">>
      [] c = "B" -> <<"b">>
      [] c = "S" -> <<"s">>
      [] c \in {"Dz", "DZ"} -> <<"dz">>
      [] OTHER -> <<c>>

\* the test of ALTERNATING: letter.is_uppercase() || letter.is_lowercase()
is_cased(c) == is_uppercase(c) \/ is_lowercase(c)

RECURSIVE Concat(_)
\* Iterator::collect::<String>() over the per-character strings
Concat(ss) == IF ss = <<>> THEN <<>> ELSE Head(ss) \o Concat(Tail(ss))

\* str::to_uppercase
str_to_uppercase(s) == Concat([j \in 1..Len(s) |-> to_uppercase(s[j])])

(***************************************************************************)
(* pattern::TOGGLE                                                         *)
(***************************************************************************)
\* a plausible slip: "toggle" read as swapping the case of every character
toggle_word_swap(word) ==
    Concat([j \in 1..Len(word) |->
              IF is_uppercase(word[j]) THEN to_lowercase(word[j])
              ELSE to_uppercase(word[j])])

\* a plausible slip: the capital pattern (first upper, rest lower)
toggle_word_capital(word) ==
    IF word = <<>> THEN <<>>
    ELSE to_uppercase(Head(word))
           \o Concat([j \in 1..Len(word) - 1 |-> to_lowercase(Tail(word)[j])])

\* a plausible slip: the character taken by chars.next() is not emitted
toggle_word_dropfirst(word) ==
    IF word = <<>> THEN <<>> ELSE str_to_uppercase(Tail(word))

toggle_word(word) ==
    IF word # <<>>
    THEN to_lowercase(Head(word)) \o str_to_uppercase(Tail(word))
    ELSE <<>>

\* a plausible slip: empty words are dropped before the map
TOGGLE_skip_empty(words) ==
    LET kept == SelectSeq(words, LAMBDA w : w # <<>>)
    IN  [i \in 1..Len(kept) |-> toggle_word(kept[i])]

TOGGLE(words) == [i \in 1..Len(words) |-> toggle_word(words[i])]

(***************************************************************************)
(* pattern::ALTERNATING                                                    *)
(***************************************************************************)
\* a plausible slip: the flag is inverted by every character
AltLetterAlways(upper, letter) ==
    IF upper THEN [upper |-> FALSE, out |-> to_uppercase(letter)]
    ELSE [upper |-> TRUE, out |-> to_lowercase(letter)]

\* the inner closure: one letter under the flag, and the flag after it
AltLetter(upper, letter) ==
    IF is_uppercase(letter) \/ is_lowercase(letter)
    THEN IF upper
         THEN [upper |-> FALSE, out |-> to_uppercase(letter)]
         ELSE [upper |-> TRUE, out |-> to_lowercase(letter)]
    ELSE [upper |-> upper, out |-> <<letter>>]

RECURSIVE AltWord(_, _)
\* word.chars().map(..).collect(): the word's output and the flag after it
AltWord(upper, word) ==
    IF word = <<>> THEN [upper |-> upper, out |-> <<>>]
    ELSE LET h == AltLetter(upper, Head(word))
             t == AltWord(h.upper, Tail(word))
         IN  [upper |-> t.upper, out |-> h.out \o t.out]

RECURSIVE AltWords(_, _)
\* words.iter().map(..).collect() with the flag threaded through the words
AltWords(upper, words) ==
    IF words = <<>> THEN [upper |-> upper, out |-> <<>>]
    ELSE LET h == AltWord(upper, Head(words))
             t == AltWords(h.upper, Tail(words))
         IN  [upper |-> t.upper, out |-> <<h.out>> \o t.out]

\* let mut upper = false
UpperInit == FALSE

ALTERNATING(words) == AltWords(UpperInit, words).out

(***************************************************************************)
(* pattern::RANDOM.  draws[n] is the outcome of the n-th                   *)
(* rng.gen::<f32>() > 0.5 of the call; every character takes one draw.     *)
(***************************************************************************)
RECURSIVE TotalLen(_)
\* the number of characters of a word sequence
TotalLen(words) ==
    IF words = <<>> THEN 0 ELSE Len(Head(words)) + TotalLen(Tail(words))

\* the number of characters before word i
Offset(words, i) == TotalLen(SubSeq(words, 1, i - 1))

\* a plausible slip: the draw is made once per word, outside the inner map
DrawIndexPerWord(words, i, j) == Offset(words, i) + 1

\* the draw that decides character j of word i
DrawIndex(words, i, j) == Offset(words, i) + j

RandLetter(draw, letter) ==
    IF draw THEN to_uppercase(letter) ELSE to_lowercase(letter)

RANDOM(words, draws) ==
    [i \in 1..Len(words) |->
       Concat([j \in 1..Len(words[i]) |->
                 RandLetter(draws[DrawIndex(words, i, j)], words[i][j])])]

\* Pattern::mutate for the three patterns of this crate
Mutate(p, words, draws) ==
    CASE p = "TOGGLE" -> TOGGLE(words)
      [] p = "ALTERNATING" -> ALTERNATING(words)
      [] p = "RANDOM" -> RANDOM(words, draws)


(***************************************************************************)
(* The host, convert_case: Casing::to_case(case) splits the string at the  *)
(* converter's boundaries, applies the case's pattern to the words and     *)
(* joins them with the case's delimiter.  A converter made by to_case      *)
(* alone keeps the host's default boundaries; the case's own boundaries    *)
(* are not consulted.  Of the defaults, the digit boundaries are left out: *)
(* StrChars holds no digit.  Whether split keeps the empty words that      *)
(* leading, trailing and doubled delimiters make differs between host      *)
(* versions: hostKeepsEmpty takes both values.                             *)
(***************************************************************************)
BoundaryDefaults == {"Underscore", "Hyphen", "Space", "LowerUpper", "Acronym"}

\* the boundary's condition on the string from character i on
BoundaryMatch(b, s, i) ==
    CASE b = "Underscore" -> s[i] = "_"
      [] b = "Hyphen" -> s[i] = "-"
      [] b = "Space" -> s[i] = " "
      [] b = "LowerUpper" ->
            i + 1 <= Len(s) /\ is_lowercase(s[i]) /\ is_uppercase(s[i + 1])
      [] b = "Acronym" ->
            /\ i + 2 <= Len(s)
            /\ is_uppercase(s[i]) /\ is_uppercase(s[i + 1])
            /\ is_lowercase(s[i + 2])

\* where the word before the boundary ends, relative to i
BoundaryStart(b) == IF b \in {"Underscore", "Hyphen", "Space"} THEN 0 ELSE 1

\* how many characters the boundary removes
BoundaryLen(b) == IF b \in {"Underscore", "Hyphen", "Space"} THEN 1 ELSE 0

RECURSIVE SplitFrom(_, _, _, _)
SplitFrom(s, bs, i, last) ==
    IF i > Len(s) THEN <<SubSeq(s, last, Len(s))>>
    ELSE LET m == {b \in bs : BoundaryMatch(b, s, i)}
         IN  IF m = {} THEN SplitFrom(s, bs, i + 1, last)
             ELSE LET b == CHOOSE x \in m : TRUE
                  IN  <<SubSeq(s, last, i - 1 + BoundaryStart(b))>>
                        \o SplitFrom(s, bs, i + 1,
                                     i + BoundaryStart(b) + BoundaryLen(b))

\* the words of s; keep says whether the host keeps empty words
Split(s, bs, keep) ==
    IF s = <<>> THEN <<>>
    ELSE LET all == SplitFrom(s, bs, 1, 1)
         IN  IF keep THEN all ELSE SelectSeq(all, LAMBDA w : w # <<>>)

RECURSIVE Join(_, _)
\* [String]::join(delim)
Join(words, delim) ==
    IF words = <<>> THEN <<>>
    ELSE IF Len(words) = 1 THEN Head(words)
    ELSE Head(words) \o delim \o Join(Tail(words), delim)

(***************************************************************************)
(* mod case: the three presets.                                            *)
(***************************************************************************)
\* a plausible slip: a preset pasted from its neighbour, pattern unchanged
case_ALTERNATING_pasted ==
    [boundaries |-> {"Space"}, pattern |-> "TOGGLE", delim |-> <<" ">>]

case_TOGGLE ==
    [boundaries |-> {"Space"}, pattern |-> "TOGGLE", delim |-> <<" ">>]

case_ALTERNATING ==
    [boundaries |-> {"Space"}, pattern |-> "ALTERNATING", delim |-> <<" ">>]

case_RANDOM ==
    [boundaries |-> {"Space"}, pattern |-> "RANDOM", delim |-> <<" ">>]

Presets == {"TOGGLE", "ALTERNATING", "RANDOM"}

\* the preset exported under a name
Preset(name) ==
    CASE name = "TOGGLE" -> case_TOGGLE
      [] name = "ALTERNATING" -> case_ALTERNATING
      [] name = "RANDOM" -> case_RANDOM

\* the words to_case hands to the pattern
to_case_words(s, keep) == Split(s, BoundaryDefaults, keep)

\* "s".to_case(case)
to_case(s, case, keep, draws) ==
    Join(Mutate(case.pattern, to_case_words(s, keep), draws), case.delim)

(***************************************************************************)
(* The inputs.                                                             *)
(***************************************************************************)
RECURSIVE Sum(_)
Sum(lens) == IF lens = <<>> THEN 0 ELSE Head(lens) + Sum(Tail(lens))

\* the ways to cut n characters into k words
Compositions(n, k) == {lens \in [1..k -> 0..n] : Sum(lens) = n}

\* the word sequence with the characters flat and the word lengths lens
Build(flat, lens) ==
    [i \in 1..Len(lens) |->
       SubSeq(flat, Sum(SubSeq(lens, 1, i - 1)) + 1, Sum(SubSeq(lens, 1, i)))]

\* the outcomes of the draws of one call
Draws(n) == [1..n -> BOOLEAN]

Proc == {"p1", "p2"}

VARIABLES
    call,            \* "none", "mutate", "again" (the pattern applied to its
                     \* own result) or "to_case": the call made
    pat,             \* the pattern or preset of the call
    input,           \* to_case: the string converted
    words,           \* the pattern's argument (of the first call, in "again")
    out,             \* the pattern's result
    result,          \* to_case: the string returned
    hostKeepsEmpty,  \* to_case: whether the host's split keeps empty words
    pc,              \* ConcSpec: "idle", "run" or "done" per invocation
    inp,             \* ConcSpec: the argument of each invocation
    pos,             \* ConcSpec: characters each invocation has mapped
    upper,           \* ConcSpec: the flag of each invocation
    res              \* ConcSpec: the words each invocation has built

seqVars == <<call, pat, input, words, out, result, hostKeepsEmpty>>
concVars == <<pc, inp, pos, upper, res>>
vars == <<call, pat, input, words, out, result, hostKeepsEmpty,
          pc, inp, pos, upper, res>>

SeqInit ==
    /\ call = "none"
    /\ pat = "none"
    /\ input = <<>>
    /\ words = <<>>
    /\ out = <<>>
    /\ result = <<>>
    /\ hostKeepsEmpty = FALSE

ConcIdle ==
    /\ pc = [p \in Proc |-> "idle"]
    /\ inp = [p \in Proc |-> <<>>]
    /\ pos = [p \in Proc |-> 0]
    /\ res = [p \in Proc |-> <<>>]

Init ==
    /\ SeqInit
    /\ ConcIdle
    /\ upper = [p \in Proc |-> FALSE]

\* pattern::TOGGLE.mutate(ws)
CallToggle ==
    /\ call = "none"
    /\ \E n \in 0..MaxChars, k \in 0..MaxWords :
         \E flat \in [1..n -> InputChars], lens \in Compositions(n, k) :
            LET ws == Build(flat, lens)
            IN  /\ words' = ws
                /\ out' = Mutate("TOGGLE", ws, <<>>)
    /\ call' = "mutate"
    /\ pat' = "TOGGLE"
    /\ UNCHANGED <<input, result, hostKeepsEmpty>>
    /\ UNCHANGED concVars

\* pattern::TOGGLE.mutate applied to the result of pattern::TOGGLE.mutate
CallToggleAgain ==
    /\ call = "mutate"
    /\ pat = "TOGGLE"
    /\ out' = Mutate("TOGGLE", out, <<>>)
    /\ call' = "again"
    /\ UNCHANGED <<pat, input, words, result, hostKeepsEmpty>>
    /\ UNCHANGED concVars

\* pattern::ALTERNATING.mutate(ws)
CallAlternating ==
    /\ call = "none"
    /\ \E n \in 0..MaxChars, k \in 0..MaxWords :
         \E flat \in [1..n -> InputChars], lens \in Compositions(n, k) :
            LET ws == Build(flat, lens)
            IN  /\ words' = ws
                /\ out' = Mutate("ALTERNATING", ws, <<>>)
    /\ call' = "mutate"
    /\ pat' = "ALTERNATING"
    /\ UNCHANGED <<input, result, hostKeepsEmpty>>
    /\ UNCHANGED concVars

\* pattern::RANDOM.mutate(ws), the generator drawing as it may
CallRandom ==
    /\ call = "none"
    /\ \E n \in 0..RandMaxChars, k \in 0..MaxWords :
         \E flat \in [1..n -> InputChars], lens \in Compositions(n, k),
            draws \in Draws(n) :
            LET ws == Build(flat, lens)
            IN  /\ words' = ws
                /\ out' = Mutate("RANDOM", ws, draws)
    /\ call' = "mutate"
    /\ pat' = "RANDOM"
    /\ UNCHANGED <<input, result, hostKeepsEmpty>>
    /\ UNCHANGED concVars

\* s.to_case(case::TOGGLE), s.to_case(case::ALTERNATING),
\* s.to_case(case::RANDOM), on a host that keeps or drops empty words
ToCase ==
    /\ call = "none"
    /\ \E name \in Presets, keep \in BOOLEAN, n \in 0..MaxStrLen :
         \E s \in [1..n -> StrChars] :
            LET ws == to_case_words(s, keep)
            IN  \E draws \in IF Preset(name).pattern = "RANDOM"
                             THEN Draws(TotalLen(ws)) ELSE {<<>>} :
                   /\ pat' = name
                   /\ input' = s
                   /\ hostKeepsEmpty' = keep
                   /\ words' = ws
                   /\ out' = Mutate(Preset(name).pattern, ws, draws)
                   /\ result' = to_case(s, Preset(name), keep, draws)
    /\ call' = "to_case"
    /\ UNCHANGED concVars

Next ==
    \/ CallToggle
    \/ CallToggleAgain
    \/ CallAlternating
    \/ CallRandom
    \/ ToCase

Spec == Init /\ [][Next]_vars

(***************************************************************************)
(* ConcSpec: two invocations of pattern::ALTERNATING, each mapping its     *)
(* argument one character at a time, interleaved in every way.  upper is   *)
(* a local of the closure's body: one cell per invocation, holding         *)
(* whatever the stack held until `let mut upper = false` runs.             *)
(***************************************************************************)
\* a plausible slip: the flag kept in one static shared by every call
FlagCellStatic(p) == "p1"

\* the cell that holds the flag of invocation p
FlagCell(p) == p

\* the word that holds the n-th character of the argument
WordOf(ws, n) ==
    CHOOSE i \in 1..Len(ws) : Offset(ws, i) < n /\ n <= Offset(ws, i) + Len(ws[i])

ConcInit ==
    /\ SeqInit
    /\ ConcIdle
    /\ upper \in [Proc -> BOOLEAN]

\* the call enters the closure: let mut upper = false
Invoke(p) ==
    /\ pc[p] = "idle"
    /\ \E n \in 0..ConcMaxChars, k \in 0..ConcMaxWords :
         \E flat \in [1..n -> ConcChars], lens \in Compositions(n, k) :
            /\ inp' = [inp EXCEPT ![p] = Build(flat, lens)]
            /\ res' = [res EXCEPT ![p] = [i \in 1..k |-> <<>>]]
    /\ upper' = [upper EXCEPT ![FlagCell(p)] = UpperInit]
    /\ pos' = [pos EXCEPT ![p] = 0]
    /\ pc' = [pc EXCEPT ![p] = "run"]
    /\ UNCHANGED seqVars

\* the inner closure maps the next character
Step(p) ==
    /\ pc[p] = "run"
    /\ pos[p] < TotalLen(inp[p])
    /\ LET n == pos[p] + 1
           i == WordOf(inp[p], n)
           r == AltLetter(upper[FlagCell(p)], inp[p][i][n - Offset(inp[p], i)])
       IN  /\ upper' = [upper EXCEPT ![FlagCell(p)] = r.upper]
           /\ res' = [res EXCEPT ![p][i] = @ \o r.out]
           /\ pos' = [pos EXCEPT ![p] = n]
    /\ UNCHANGED <<pc, inp>>
    /\ UNCHANGED seqVars

\* the outer collect() ends and the call returns res[p]
Return(p) ==
    /\ pc[p] = "run"
    /\ pos[p] = TotalLen(inp[p])
    /\ pc' = [pc EXCEPT ![p] = "done"]
    /\ UNCHANGED <<inp, pos, upper, res>>
    /\ UNCHANGED seqVars

ConcNext == \E p \in Proc : Invoke(p) \/ Step(p) \/ Return(p)

ConcSpec == ConcInit /\ [][ConcNext]_vars

(***************************************************************************)
(* Vocabulary of the claims.                                               *)
(***************************************************************************)
\* every character the patterns can read or write
AllChars ==
    InputChars \cup StrChars \cup ConcChars
      \cup {"A", "b", "S", "s", "DZ", "dz"}

\* alphabetic, as the glossary has it: the two case forms differ
HasCase(c) == to_uppercase(c) # to_lowercase(c)

\* both case mappings of c are one character
SingleMapped(c) == Len(to_uppercase(c)) = 1 /\ Len(to_lowercase(c)) = 1

\* the state holds the argument and the result of one pattern call
Applied == call \in {"mutate", "to_case"}

\* the positions <<word, character>> of a word sequence
Positions(ws) ==
    UNION {{<<a, b>> : b \in 1..Len(ws[a])} : a \in 1..Len(ws)}

\* the cased characters before character j of word i, in reading order
CasedBefore(ws, i, j) ==
    Cardinality({q \in Positions(ws) :
                   /\ q[1] < i \/ (q[1] = i /\ q[2] < j)
                   /\ is_cased(ws[q[1]][q[2]])})

\* the cased characters of a word sequence
CasedCount(ws) == CasedBefore(ws, Len(ws) + 1, 1)

\* the case of every cased character of a word inverted
InvertWord(w) ==
    Concat([j \in 1..Len(w) |->
              IF is_uppercase(w[j]) THEN to_lowercase(w[j])
              ELSE IF is_lowercase(w[j]) THEN to_uppercase(w[j])
              ELSE <<w[j]>>])

InvertWords(ws) == [i \in 1..Len(ws) |-> InvertWord(ws[i])]

(***************************************************************************)
(* C1                                                                      *)
(***************************************************************************)
\* C1: after Toggle, output word i is the lowercase of the first character
\* of input word i followed by the uppercase of each remaining character;
\* an empty word gives the empty word and a one-character word its
\* lowercase, whatever the first character is.
C1_ToggleRule ==
    (Applied /\ pat = "TOGGLE") =>
        /\ Len(out) = Len(words)
        /\ \A i \in 1..Len(words) :
             LET w == words[i]
             IN  /\ w = <<>> => out[i] = <<>>
                 /\ Len(w) = 1 => out[i] = to_lowercase(w[1])
                 /\ w # <<>> =>
                      out[i] = to_lowercase(w[1])
                                 \o Concat([j \in 1..Len(w) - 1 |->
                                              to_uppercase(w[j + 1])])

C1_Witness ==
    /\ call = "mutate"
    /\ pat = "TOGGLE"
    /\ words = << <<"B", "a">>, <<"B">> >>
    /\ out = << <<"b", "A">>, <<"b">> >>

(***************************************************************************)
(* C2                                                                      *)
(***************************************************************************)
\* the k-th cased character of the flattened argument is emitted lowercase
\* for odd k and uppercase for even k; other characters are unchanged and
\* do not count
AlternatingByParity ==
    (Applied /\ pat = "ALTERNATING") =>
        /\ Len(out) = Len(words)
        /\ \A i \in 1..Len(words) :
             out[i] =
               Concat([j \in 1..Len(words[i]) |->
                         LET c == words[i][j]
                         IN  IF ~is_cased(c) THEN <<c>>
                             ELSE IF CasedBefore(words, i, j) % 2 = 0
                                  THEN to_lowercase(c)
                                  ELSE to_uppercase(c)])

HasCased(w) == \E j \in 1..Len(w) : is_cased(w[j])

LastCased(w) ==
    w[CHOOSE j \in 1..Len(w) :
        is_cased(w[j]) /\ \A l \in j + 1..Len(w) : ~is_cased(w[l])]

FirstCased(w) ==
    w[CHOOSE j \in 1..Len(w) :
        is_cased(w[j]) /\ \A l \in 1..j - 1 : ~is_cased(w[l])]

SameCasing(c, d) ==
    \/ is_uppercase(c) /\ is_uppercase(d)
    \/ is_lowercase(c) /\ is_lowercase(d)

\* the last cased letter of one output word and the first cased letter of
\* the next never have the same casing
AlternatesAcrossWords ==
    (Applied /\ pat = "ALTERNATING") =>
        \A i \in 1..Len(out) - 1 :
            (HasCased(out[i]) /\ HasCased(out[i + 1])) =>
                ~SameCasing(LastCased(out[i]), FirstCased(out[i + 1]))

\* C2: Alternating emits the k-th cased character of the flattened word
\* sequence lowercase for odd k and uppercase for even k, leaves the other
\* characters unchanged and uncounted, and so never gives the last cased
\* letter of a word and the first cased letter of the next the same casing.
C2_AlternatingRule == AlternatingByParity /\ AlternatesAcrossWords

(***************************************************************************)
(* C3                                                                      *)
(***************************************************************************)
\* C3, as claimed: every pattern keeps the number of words and the number
\* of characters of each word, leaves each non-alphabetic character where
\* it was and replaces each alphabetic one by a case form of itself.
C3_ShapePreserved ==
    Applied =>
        /\ Len(out) = Len(words)
        /\ \A i \in 1..Len(words) :
             /\ Len(out[i]) = Len(words[i])
             /\ \A j \in 1..Len(words[i]) :
                  LET c == words[i][j]
                  IN  /\ ~HasCase(c) => out[i][j] = c
                      /\ <<out[i][j]>> \in {<<c>>, to_uppercase(c),
                                            to_lowercase(c)}

\* C3, amended: every pattern keeps the number of words; each output word
\* is the concatenation, in order, of one piece per input character, the
\* character itself or its uppercase or lowercase mapping, and the
\* character itself when it has no case distinction; the number of
\* characters and their positions are kept in every word whose characters
\* all have one-character case mappings.
C3_ShapePreservedSingleMapped ==
    Applied =>
        /\ Len(out) = Len(words)
        /\ \A i \in 1..Len(words) :
             LET w == words[i]
                 piece(c, g) == IF ~HasCase(c) \/ g = "keep" THEN <<c>>
                                ELSE IF g = "upper" THEN to_uppercase(c)
                                ELSE to_lowercase(c)
             IN  /\ \E g \in [1..Len(w) -> {"keep", "upper", "lower"}] :
                       out[i] = Concat([j \in 1..Len(w) |-> piece(w[j], g[j])])
                 /\ (\A j \in 1..Len(w) : SingleMapped(w[j])) =>
                       /\ Len(out[i]) = Len(w)
                       /\ \A j \in 1..Len(w) :
                            /\ ~HasCase(w[j]) => out[i][j] = w[j]
                            /\ <<out[i][j]>> \in {<<w[j]>>, to_uppercase(w[j]),
                                                  to_lowercase(w[j])}

C3_Witness ==
    /\ call = "mutate"
    /\ pat = "RANDOM"
    /\ words = << <<"1">>, <<"sz">> >>
    /\ out = << <<"1">>, <<"S", "S">> >>

(***************************************************************************)
(* C4                                                                      *)
(***************************************************************************)
\* the three presets are the bundles the source declares
PresetBundles ==
    \A name \in Presets :
        /\ Preset(name).boundaries = {"Space"}
        /\ Preset(name).pattern = name
        /\ Preset(name).delim = <<" ">>

\* the result of to_case is the pattern of the preset's name applied once
\* to the words that the boundaries bs cut from the input, joined by a space
ConvertedWith(bs) ==
    call = "to_case" =>
        LET ws == Split(input, bs, hostKeepsEmpty)
        IN  /\ words = ws
            /\ pat = "TOGGLE" => result = Join(TOGGLE(ws), <<" ">>)
            /\ pat = "ALTERNATING" => result = Join(ALTERNATING(ws), <<" ">>)
            /\ pat = "RANDOM" =>
                 \E draws \in Draws(TotalLen(ws)) :
                     result = Join(RANDOM(ws, draws), <<" ">>)

LowerWordsJoined(s) ==
    /\ s # <<>>
    /\ \A i \in 1..Len(s) : s[i] \in {"_", " "} \/ (is_lowercase(s[i]) /\ HasCase(s[i]))
    /\ s[1] \notin {"_", " "}
    /\ s[Len(s)] \notin {"_", " "}
    /\ \A i \in 1..Len(s) - 1 : ~(s[i] \in {"_", " "} /\ s[i + 1] \in {"_", " "})

\* C5: to_case(case::TOGGLE) of non-empty lowercase words joined by "_" or
\* " " is each word toggled (first character lowercase, the rest
\* uppercase), the words joined by single spaces, with no underscore left.
C5_ToggleSplitsUnderscore ==
    (call = "to_case" /\ pat = "TOGGLE" /\ LowerWordsJoined(input)) =>
        /\ Len(result) = Len(input)
        /\ \A i \in 1..Len(input) :
             /\ result[i] # "_"
             /\ <<result[i]>> =
                  IF input[i] \in {"_", " "} THEN <<" ">>
                  ELSE IF i = 1 \/ input[i - 1] \in {"_", " "}
                       THEN to_lowercase(input[i])
                       ELSE to_uppercase(input[i])

C5_Witness ==
    /\ call = "to_case"
    /\ pat = "TOGGLE"
    /\ input = <<"a", "a", "_", "a">>
    /\ result = <<"a", "A", " ", "a">>

(***************************************************************************)
(* C6                                                                      *)
(***************************************************************************)
\* C6: every pattern returns a sequence of words for every argument: the
\* empty sequence for the empty sequence, and the argument itself when no
\* word holds an alphabetic character (empty words included).
C6_Total ==
    Applied =>
        /\ out \in Seq(Seq(AllChars))
        /\ Len(out) = Len(words)
        /\ words = <<>> => out = <<>>
        /\ (\A q \in Positions(words) : ~HasCase(words[q[1]][q[2]])) =>
              out = words

C6_Witness ==
    /\ call = "mutate"
    /\ pat = "TOGGLE"
    /\ words = << <<>>, <<"1", "kra">> >>
    /\ out = words

(***************************************************************************)
(* C7                                                                      *)
(***************************************************************************)
\* C7: every invocation of Alternating, however the invocations are
\* ordered or interleaved, starts with its flag at lowercase-next and
\* returns what it returns when run alone on its argument.
C7_FlagPerInvocation ==
    \A p \in Proc :
        /\ (pc[p] = "run" /\ pos[p] = 0) => upper[p] = FALSE
        /\ pc[p] = "done" => res[p] = ALTERNATING(inp[p])

C7_Witness ==
    /\ pc["p1"] = "run" /\ inp["p1"] = << <<"a", "a">> >> /\ pos["p1"] = 1
    /\ res["p1"] = << <<"a">> >> /\ upper["p1"] = TRUE
    /\ pc["p2"] = "done" /\ inp["p2"] = << <<"a">>, <<"a">> >>
    /\ res["p2"] = << <<"a">>, <<"A">> >> /\ upper["p2"] = FALSE

(***************************************************************************)
(* C8                                                                      *)
(***************************************************************************)
\* the arguments the calls of Spec draw
PatternInputs ==
    UNION {{Build(flat, lens) :
              flat \in [1..n -> InputChars], lens \in Compositions(n, k)} :
             <<n, k>> \in (0..MaxChars) \X (0..MaxWords)}

\* C8, as claimed: Toggle applied to its own output neither restores the
\* original for every word sequence nor is a no-op: some word sequence ws
\* has Toggle(Toggle(ws)) different from Toggle(ws).
C8_NotIdempotent ==
    /\ \E ws \in PatternInputs : TOGGLE(TOGGLE(ws)) # ws
    /\ \E ws \in PatternInputs : TOGGLE(TOGGLE(ws)) # TOGGLE(ws)

\* C8, amended: Toggle is idempotent: applied to its own output it returns
\* that output unchanged, Toggle(Toggle(ws)) = Toggle(ws) for every ws (so
\* it restores the original only when the original is already toggled).
C8_Idempotent ==
    (call = "again" /\ pat = "TOGGLE") =>
        /\ out = [i \in 1..Len(words) |->
                    IF words[i] = <<>> THEN <<>>
                    ELSE to_lowercase(words[i][1])
                           \o str_to_uppercase(Tail(words[i]))]
        /\ (out = words <=> \A i \in 1..Len(words) :
                               words[i] = <<>> \/
                               words[i] = to_lowercase(words[i][1])
                                            \o str_to_uppercase(Tail(words[i])))

C8_Witness ==
    /\ call = "again"
    /\ pat = "TOGGLE"
    /\ words = << <<"B", "a">>, <<"B">> >>
    /\ out = << <<"b", "A">>, <<"b">> >>

(***************************************************************************)
(* C9                                                                      *)
(***************************************************************************)
\* every way to choose a case for each alphabetic character of ws
CaseChoices(ws) ==
    {[i \in 1..Len(ws) |->
        Concat([j \in 1..Len(ws[i]) |->
                  LET c == ws[i][j]
                  IN  IF ~HasCase(c) THEN <<c>>
                      ELSE IF g[Offset(ws, i) + j] THEN to_uppercase(c)
                      ELSE to_lowercase(c)])] :
       g \in [1..TotalLen(ws) -> BOOLEAN]}

\* C9: the results Random can give for an argument are exactly the word
\* sequences got by choosing uppercase or lowercase separately for every
\* alphabetic character, the other characters unchanged.
C9_RandomChoices ==
    (call = "mutate" /\ pat = "RANDOM") =>
        /\ out \in CaseChoices(words)
        /\ {RANDOM(words, d) : d \in Draws(TotalLen(words))} = CaseChoices(words)

C9_Witness ==
    /\ call = "mutate"
    /\ pat = "RANDOM"
    /\ words = << <<"a">>, <<"B">> >>
    /\ out = << <<"A">>, <<"B">> >>

(***************************************************************************)
(* C10                                                                     *)
(***************************************************************************)
\* the result of Alternating on words[i] alone
Alone(i) == ALTERNATING(<<words[i]>>)[1]

=============================================================================
